---- MODULE Spec2Model ----
(***************************************************************************)
(* Model of dataloader.py: the patch corpus of ImageData (grid planning,   *)
(* degradation by ImageAugment, the 4-thread pool.map build), the indexed  *)
(* fetch __getitem__ and the batch collation of ImageLoader.               *)
(*                                                                         *)
(* An image is its size [w, h]; a patch pair records the file it was cut   *)
(* from, its box, the sizes of its two members, the resampling filter and  *)
(* the JPEG quality drawn for it.  Pixel values are not modelled.          *)
(***************************************************************************)
EXTENDS Integers, Sequences, FiniteSets, TLC

\* ------------------------------------------------------------------ bounds
MaxFiles == 2       \* files found by glob (specification SpecPool)
MaxDim == 4         \* image width and height (specification Spec)
MaxPatch == 3       \* patch_size (specification Spec)
MaxCap == 4         \* max_patch_per_img (specification Spec)
MaxShrink == 2      \* shrink_size (specification Spec)
RngMod == 16        \* size of the random generator's state space

\* values of random.seed, of pad_img, and lengths of a batch
Seeds == {0, 1}

Pads == {0, 1, 2}

BatchLengths == {1, 2}

\* ------------------------------------------------------- program constants
PoolSize == 4

VARIABLES
    cfg,            \* constructor arguments of ImageData (never change)
    file_names,     \* glob result: the images, in directory-scan order
    rng,            \* state of the process-global generator of module random
    pc,             \* main thread: "init", "map", "ready", "error"
    error,          \* exception that reached the caller of the constructor
    noise_level,    \* ImageAugment.noise_level, the [low, high] range
    wpc,            \* per task: "queued", "opened", "process", "done", "raised"
    img_grids,      \* per task: the local img_grids of get_img_patches
    lr_hr_patches,  \* per task: the local lr_hr_patches of get_img_patches
    map_value,      \* MapResult._value of pool.map
    number_left,    \* MapResult._number_left
    map_exc,        \* MapResult: first exception set by a worker, or "none"
    set_order,      \* history: the tasks in the order their workers called _set
    patch_grids,    \* ImageData.patch_grids, the corpus
    ret             \* result of the one call made on the built dataset

vars == <<cfg, file_names, rng, pc, error, noise_level, wpc, img_grids,
          lr_hr_patches, map_value, number_left, map_exc, set_order, patch_grids, ret>>

Min(a, b) == IF a < b THEN a ELSE b

NoRet == [op |-> "none"]

\* ------------------------------------------------------------ module random
\* The generator is a deterministic function of its state; every draw reads
\* the state and advances it.
NextRng(r) == (5 * r + 3) % RngMod

randbelow(n, r) == r % n

\* random.uniform(a, b) = a + (b - a) * random(); the result is the rational
\* num / den, anywhere in the closed interval [a, b].
uniform_num(a, b, r) == a * (RngMod - 1) + (b - a) * r

uniform_den == RngMod - 1

\* Python 3 round(): to the nearest integer, ties to the even one.
py_round(num, den) ==
    LET q == num \div den
        rem == num % den
    IN  IF 2 * rem < den THEN q
        ELSE IF 2 * rem > den THEN q + 1
        ELSE IF q % 2 = 0 THEN q ELSE q + 1

\* random.sample(population, k) for a population of at most 21 elements: k
\* draws, each moving the last live element of the pool into the slot just
\* taken.
RECURSIVE sample_loop(_, _, _, _)
sample_loop(pool, n, k, r) ==
    IF k = 0 THEN [result |-> <<>>, rng |-> r]
    ELSE LET j == randbelow(n, r) + 1
             rest == sample_loop([pool EXCEPT ![j] = pool[n]], n - 1, k - 1, NextRng(r))
         IN  [result |-> <<pool[j]>> \o rest.result, rng |-> rest.rng]

sample(population, k, r) == sample_loop(population, Len(population), k, r)


\* ------------------------------------------------- ImageData.get_img_grids
\* Faulty variant: each product is compared with the side its index counts along,
\* which the loop bounds already ensure.
in_image_matching_axes(i, j, img_w, img_h, patch_size) ==
    patch_size * (j + 1) <= img_w /\ patch_size * (i + 1) <= img_h

\* The guard of the double loop, for loop indices i (over count_h) and j
\* (over count_w).
in_image(i, j, img_w, img_h, patch_size) ==
    patch_size * (j + 1) <= img_h /\ patch_size * (i + 1) <= img_w

\* patch_box before subsampling, in loop order.
patch_box_all(img, patch_size) ==
    LET count_w == img.w \div patch_size
        count_h == img.h \div patch_size
        cells == [k \in 1..(count_h * count_w) |->
                     <<(k - 1) \div count_w, (k - 1) % count_w>>]
        keep(c) == in_image(c[1], c[2], img.w, img.h, patch_size)
        kept == SelectSeq(cells, keep)
    IN  [k \in 1..Len(kept) |->
            <<patch_size * kept[k][1], patch_size * kept[k][2],
              patch_size * (kept[k][1] + 1), patch_size * (kept[k][2] + 1)>>]

get_img_grids(img, patch_size, max_path_per_img, r) ==
    LET patch_box == patch_box_all(img, patch_size)
    IN  IF Len(patch_box) > max_path_per_img
        THEN sample(patch_box, max_path_per_img, r)
        ELSE [result |-> patch_box, rng |-> r]

\* ------------------------------------------------------------ ImageAugment
ValidNoise == {0, 1, 2}

\* Faulty variant: the ranges of levels 1 and 2 exchanged.
NoiseRange_swapped(level) ==
    CASE level = 0 -> <<0, 0>>
      [] level = 1 -> <<25, 50>>
      [] level = 2 -> <<5, 25>>

NoiseRange(level) ==
    CASE level = 0 -> <<0, 0>>
      [] level = 1 -> <<5, 25>>
      [] level = 2 -> <<25, 50>>

Filters == <<"BILINEAR", "BICUBIC", "LANCZOS">>

NoQuality == 0 - 1      \* add_jpeg_noise was not run

\* Faulty variant: rounds up instead of truncating.
shrunk_ceil(x, shrink_size) == (x + shrink_size - 1) \div shrink_size

\* int(x / shrink_size)
shrunk(x, shrink_size) == x \div shrink_size

\* shrink_img: the filter is drawn unless one was given; Image.resize
\* rejects a target size with a zero side (ValueError).  shrink_size is an
\* integer here.
shrink_img(size, shrink_size, down_sample_method, r) ==
    LET drawn == down_sample_method = "None"
        lr == <<shrunk(size[1], shrink_size), shrunk(size[2], shrink_size)>>
    IN  [resample |-> IF drawn THEN Filters[randbelow(3, r) + 1] ELSE down_sample_method,
         size |-> lr,
         raised |-> lr[1] < 1 \/ lr[2] < 1,
         rng |-> IF drawn THEN NextRng(r) ELSE r]

\* add_jpeg_noise: the re-encode keeps the size; only the quality is recorded.
add_jpeg_noise(noise, r) ==
    [quality |-> 100 - py_round(uniform_num(noise[1], noise[2], r), uniform_den),
     rng |-> NextRng(r)]

\* whether process runs add_jpeg_noise
adds_noise(noise) == noise[2] > 0

\* process: crop, shrink, optional re-encode.
process(i, grid, shrink_size, down_sample_method, noise, r) ==
    LET hr == <<grid[3] - grid[1], grid[4] - grid[2]>>
        sh == shrink_img(hr, shrink_size, down_sample_method, r)
        noisy == adds_noise(noise)
        jn == add_jpeg_noise(noise, sh.rng)
    IN  [raised |-> sh.raised,
         pair |-> [img |-> i, box |-> grid, hr |-> hr, lr |-> sh.size,
                   resample |-> sh.resample,
                   quality |-> IF noisy THEN jn.quality ELSE NoQuality],
         rng |-> IF ~sh.raised /\ noisy THEN jn.rng ELSE sh.rng]

\* Faulty variant: width and height exchanged.
up_sample_swapped(size, shrink_size) == <<shrink_size * size[2], shrink_size * size[1]>>

up_sample(size, shrink_size) == <<shrink_size * size[1], shrink_size * size[2]>>

\* ------------------------------------------------------- pool.map plumbing
Tasks == 1..Len(file_names)

Running == {j \in Tasks : wpc[j] \in {"opened", "process"}}

\* Worker threads exist from pool.map on; they keep running when map has
\* already re-raised a worker's exception in the main thread.
PoolAlive == pc = "map" \/ (pc = "error" /\ map_exc # "none")

\* Faulty variant: results are kept in the order the workers deliver them.
MapSet_completion_order(value, i, result) ==
    LET free == CHOOSE k \in 1..Len(value) :
                    ~value[k].set /\ \A l \in 1..(k - 1) : value[l].set
    IN  [value EXCEPT ![free] = [set |-> TRUE, v |-> result]]

\* MapResult._set(i, (True, result))
MapSet(value, i, result) == [value EXCEPT ![i] = [set |-> TRUE, v |-> result]]

\* Faulty variant: a worker's exception is dropped.
RecordFailure_swallowed(old, exc) == old

\* MapResult._set(i, (False, exc)): the first exception is kept.  Depending
\* on the Python version map re-raises it at once or when every task has
\* reported; MapRaise allows both.
RecordFailure(old, exc) == IF old = "none" THEN exc ELSE old

RECURSIVE chain(_)
chain(value) ==
    IF Len(value) = 0 THEN <<>> ELSE Head(value).v \o chain(Tail(value))

\* ---------------------------------------------------------------- actions
InitWith(files, c) ==
    /\ cfg = c
    /\ file_names = files
    /\ rng = c.seed
    /\ pc = "init"
    /\ error = "none"
    /\ noise_level = <<>>
    /\ wpc = [i \in 1..Len(files) |-> "queued"]
    /\ img_grids = [i \in 1..Len(files) |-> <<>>]
    /\ lr_hr_patches = [i \in 1..Len(files) |-> <<>>]
    /\ map_value = [i \in 1..Len(files) |-> [set |-> FALSE, v |-> <<>>]]
    /\ number_left = Len(files)
    /\ map_exc = "none"
    /\ set_order = <<>>
    /\ patch_grids = <<>>
    /\ ret = NoRet

\* ImageData.__init__ up to the call of pool.map: the augmenter is built
\* first and rejects a noise level other than 0, 1, 2.
Construct ==
    /\ pc = "init"
    /\ IF cfg.noise_level \in ValidNoise
       THEN /\ noise_level' = NoiseRange(cfg.noise_level)
            /\ pc' = "map"
            /\ error' = error
       ELSE /\ noise_level' = noise_level
            /\ pc' = "error"
            /\ error' = "KeyError"
    /\ UNCHANGED <<cfg, file_names, rng, wpc, img_grids, lr_hr_patches,
                   map_value, number_left, map_exc, set_order, patch_grids, ret>>

CanStart(i) ==
    /\ PoolAlive
    /\ wpc[i] = "queued"
    /\ \A j \in Tasks : j < i => wpc[j] # "queued"
    /\ Cardinality(Running) < PoolSize

\* get_img_patches, Image.open(...).convert("RGB") succeeds
TaskOpen(i) ==
    /\ CanStart(i)
    /\ wpc' = [wpc EXCEPT ![i] = "opened"]
    /\ UNCHANGED <<cfg, file_names, rng, pc, error, noise_level, img_grids,
                   lr_hr_patches, map_value, number_left, map_exc, set_order, patch_grids, ret>>

\* get_img_patches, Image.open raises: the worker hands the exception to map
TaskOpenFails(i) ==
    /\ CanStart(i)
    /\ wpc' = [wpc EXCEPT ![i] = "raised"]
    /\ map_exc' = RecordFailure(map_exc, "IOError")
    /\ number_left' = number_left - 1
    /\ set_order' = Append(set_order, i)
    /\ UNCHANGED <<cfg, file_names, rng, pc, error, noise_level, img_grids,
                   lr_hr_patches, map_value, patch_grids, ret>>

\* get_img_patches, img_grids = self.get_img_grids(img)
TaskGrids(i) ==
    /\ PoolAlive
    /\ wpc[i] = "opened"
    /\ LET g == get_img_grids(file_names[i], cfg.patch_size, cfg.max_path_per_img, rng)
       IN  /\ img_grids' = [img_grids EXCEPT ![i] = g.result]
           /\ rng' = g.rng
    /\ wpc' = [wpc EXCEPT ![i] = "process"]
    /\ UNCHANGED <<cfg, file_names, pc, error, noise_level, lr_hr_patches,
                   map_value, number_left, map_exc, set_order, patch_grids, ret>>

\* get_img_patches, one iteration of the list comprehension over img_grids
TaskProcess(i) ==
    /\ PoolAlive
    /\ wpc[i] = "process"
    /\ Len(lr_hr_patches[i]) < Len(img_grids[i])
    /\ LET grid == img_grids[i][Len(lr_hr_patches[i]) + 1]
           p == process(i, grid, cfg.shrink_size, cfg.down_sample_method, noise_level, rng)
       IN  /\ rng' = p.rng
           /\ IF p.raised
              THEN /\ wpc' = [wpc EXCEPT ![i] = "raised"]
                   /\ map_exc' = RecordFailure(map_exc, "ValueError")
                   /\ number_left' = number_left - 1
                   /\ set_order' = Append(set_order, i)
                   /\ lr_hr_patches' = lr_hr_patches
              ELSE /\ lr_hr_patches' = [lr_hr_patches EXCEPT ![i] = Append(@, p.pair)]
                   /\ UNCHANGED <<wpc, map_exc, number_left, set_order>>
    /\ UNCHANGED <<cfg, file_names, pc, error, noise_level, img_grids,
                   map_value, patch_grids, ret>>

\* get_img_patches, img.close() and return: the result goes to its slot
TaskReturn(i) ==
    /\ PoolAlive
    /\ wpc[i] = "process"
    /\ Len(lr_hr_patches[i]) = Len(img_grids[i])
    /\ wpc' = [wpc EXCEPT ![i] = "done"]
    /\ map_value' = MapSet(map_value, i, lr_hr_patches[i])
    /\ number_left' = number_left - 1
    /\ set_order' = Append(set_order, i)
    /\ UNCHANGED <<cfg, file_names, rng, pc, error, noise_level, img_grids,
                   lr_hr_patches, map_exc, patch_grids, ret>>

\* pool.map returns; close, join, chain.from_iterable; __init__ returns
MapReturn ==
    /\ pc = "map"
    /\ number_left = 0
    /\ map_exc = "none"
    /\ patch_grids' = chain(map_value)
    /\ pc' = "ready"
    /\ UNCHANGED <<cfg, file_names, rng, error, noise_level, wpc, img_grids,
                   lr_hr_patches, map_value, number_left, map_exc, set_order, ret>>

\* pool.map re-raises a worker's exception; it leaves __init__
MapRaise ==
    /\ pc = "map"
    /\ map_exc # "none"
    /\ pc' = "error"
    /\ error' = map_exc
    /\ UNCHANGED <<cfg, file_names, rng, noise_level, wpc, img_grids,
                   lr_hr_patches, map_value, number_left, map_exc, set_order, patch_grids, ret>>


\* ------------------------------------------------- ImageData.__getitem__
\* list.__getitem__ of Python: the 1-based position of index in a list of
\* n elements, or 0 when it raises IndexError.
py_list_index(n, index) ==
    IF 0 <= index /\ index < n THEN index + 1
    ELSE IF 0 - n <= index /\ index < 0 THEN n + index + 1
    ELSE 0

\* bands of both members after the conversion, 0 when the mode is rejected
bands_of(color_mod) ==
    IF color_mod = "RGB" THEN 3 ELSE IF color_mod = "YCbCr" THEN 1 ELSE 0

getitem(index) ==
    LET k == py_list_index(Len(patch_grids), index)
        bands == bands_of(cfg.color_mod)
    IN  IF k = 0 THEN [op |-> "getitem", index |-> index, exc |-> "IndexError"]
        ELSE IF bands = 0 THEN [op |-> "getitem", index |-> index, exc |-> "KeyError"]
        ELSE [op |-> "getitem", index |-> index, exc |-> "none", item |-> k,
              lr |-> [size |-> patch_grids[k].lr, bands |-> bands],
              hr |-> [size |-> patch_grids[k].hr, bands |-> bands]]

\* the indices a caller tries: in range, negative, and past either end
Indices == (0 - Len(patch_grids) - 2)..(Len(patch_grids) + 1)

GetItem(index) ==
    /\ pc = "ready"
    /\ ret = NoRet
    /\ ret' = getitem(index)
    /\ UNCHANGED <<cfg, file_names, rng, pc, error, noise_level, wpc, img_grids,
                   lr_hr_patches, map_value, number_left, map_exc, set_order, patch_grids>>

\* ------------------------------------------- ImageLoader.batch_collector
\* to_tensor of a PIL image of size (w, h): shape (C, H, W)
to_tensor(img) == <<img.bands, img.size[2], img.size[1]>>

\* torch.stack(..., dim=0): the shape, <<>> when the shapes differ
stack(tensors) ==
    IF \A k \in 1..Len(tensors) : tensors[k] = tensors[1]
    THEN <<Len(tensors)>> \o tensors[1]
    ELSE <<>>

\* Faulty variant: pads one edge of each axis only.
ZeroPad2d_one_edge(shape, p) == <<shape[1], shape[2], shape[3] + p, shape[4] + p>>

\* nn.ZeroPad2d(p) on a (B, C, H, W) tensor
ZeroPad2d(shape, p) == <<shape[1], shape[2], shape[3] + 2 * p, shape[4] + 2 * p>>

\* batch is the list of what __getitem__ returned for the sampled indices
batch_collector(batch, pad_img, up_sample_filter) ==
    LET items == [k \in 1..Len(batch) |-> batch[k].item]
        lr_img == stack([k \in 1..Len(batch) |-> to_tensor(batch[k].lr)])
        hr_img == stack([k \in 1..Len(batch) |-> to_tensor(batch[k].hr)])
        lr_pad == IF pad_img # 0 THEN ZeroPad2d(lr_img, pad_img) ELSE lr_img
        lr_img_up == stack([k \in 1..Len(batch) |->
                        to_tensor([size |-> up_sample(batch[k].lr.size, cfg.shrink_size),
                                   bands |-> batch[k].lr.bands])])
    IN  [op |-> "batch", exc |-> "none", pad |-> pad_img, up_sample |-> up_sample_filter,
         lr |-> [shape |-> lr_pad, items |-> items],
         hr |-> [shape |-> hr_img, items |-> items],
         lr_up |-> IF up_sample_filter # "None"
                   THEN [shape |-> lr_img_up, items |-> items]
                   ELSE [shape |-> <<>>, items |-> <<>>]]

\* the index lists the sampler can hand to one batch: it draws without
\* replacement, in order or shuffled
Batches ==
    {b \in UNION {[1..m -> 0..(Len(patch_grids) - 1)] : m \in BatchLengths} :
        \A k, l \in 1..Len(b) : k # l => b[k] # b[l]}

\* ImageLoader(dataset, up_sample, pad_img=...) and one batch of it: the
\* fetches, then collate_fn
BatchCollector(indices, pad_img, up_sample_filter) ==
    /\ pc = "ready"
    /\ ret = NoRet
    /\ LET batch == [k \in 1..Len(indices) |-> getitem(indices[k])]
       IN  ret' = IF \E k \in 1..Len(batch) : batch[k].exc # "none"
                  THEN [op |-> "batch", exc |-> "KeyError"]
                  ELSE batch_collector(batch, pad_img, up_sample_filter)
    /\ UNCHANGED <<cfg, file_names, rng, pc, error, noise_level, wpc, img_grids,
                   lr_hr_patches, map_value, number_left, map_exc, set_order, patch_grids>>

\* ----------------------------- ImageAugment.shrink_img then up_sample
\* a caller shrinks the image of file i with the dataset's augmenter and
\* scales the result back up
ShrinkUpSample(i) ==
    /\ pc = "ready"
    /\ ret = NoRet
    /\ LET src == <<file_names[i].w, file_names[i].h>>
           sh == shrink_img(src, cfg.shrink_size, cfg.down_sample_method, rng)
       IN  /\ rng' = sh.rng
           /\ ret' = IF sh.raised
                     THEN [op |-> "shrink_up", src |-> src, exc |-> "ValueError"]
                     ELSE [op |-> "shrink_up", src |-> src, exc |-> "none",
                           lr |-> sh.size, up |-> up_sample(sh.size, cfg.shrink_size)]
    /\ UNCHANGED <<cfg, file_names, pc, error, noise_level, wpc, img_grids,
                   lr_hr_patches, map_value, number_left, map_exc, set_order, patch_grids>>

\* ------------------------------------------------------------ specifications
Images(d) == [w : 1..d, h : 1..d]

\* One file, every configuration, the whole life of the dataset: the build,
\* then one call on the built dataset.
Configs ==
    [patch_size : 1..MaxPatch, max_path_per_img : 1..MaxCap, shrink_size : 1..MaxShrink,
     noise_level : 0..3, down_sample_method : {"None", "BICUBIC"},
     color_mod : {"RGB", "YCbCr", "HSV"}, seed : Seeds]

Init == \E files \in [1..1 -> Images(MaxDim)], c \in Configs : InitWith(files, c)

Build ==
    \/ Construct
    \/ \E i \in Tasks : TaskOpen(i)
    \/ \E i \in Tasks : TaskOpenFails(i)
    \/ \E i \in Tasks : TaskGrids(i)
    \/ \E i \in Tasks : TaskProcess(i)
    \/ \E i \in Tasks : TaskReturn(i)
    \/ MapReturn
    \/ MapRaise

Next ==
    \/ Build
    \/ \E index \in Indices : GetItem(index)
    \/ \E indices \in Batches, pad_img \in Pads, up \in {"None", "BILINEAR"} :
           BatchCollector(indices, pad_img, up)
    \/ \E i \in Tasks : ShrinkUpSample(i)

Spec == Init /\ [][Next]_vars

\* The build alone, over several files: every interleaving of the workers.
\* The images are square: a worker's steps depend on its image only through
\* the number of boxes.
PoolImages == {[w |-> d, h |-> d] : d \in 1..2}

PoolConfigs ==
    [patch_size : 1..2, max_path_per_img : 1..2, shrink_size : 1..2,
     noise_level : {0, 1}, down_sample_method : {"None", "BICUBIC"},
     color_mod : {"RGB"}, seed : Seeds]

InitPool ==
    \E files \in UNION {[1..m -> PoolImages] : m \in 0..MaxFiles}, c \in PoolConfigs :
        InitWith(files, c)

SpecPool == InitPool /\ [][Build]_vars

\* ------------------------------------------------------------------ claims
ImageOf(i) == file_names[i]

\* task i has run get_img_grids
Gridded(i) == wpc[i] \in {"process", "done"}

\* C1: the number of boxes get_img_grids returns is
\* min(count_w * count_h, max_patch_per_img), also for non-square images.
C1_GridCount ==
    \A i \in Tasks : Gridded(i) =>
        Len(img_grids[i]) =
            Min((ImageOf(i).w \div cfg.patch_size) * (ImageOf(i).h \div cfg.patch_size),
                cfg.max_path_per_img)

BoxesOverlap(b, c) == b[1] < c[3] /\ c[1] < b[3] /\ b[2] < c[4] /\ c[2] < b[4]

\* C2: every returned box is a patch_size square on the patch grid, inside
\* the image as crop reads it (left, upper, right, lower), and no two
\* returned boxes overlap or coincide.
C2_BoxesInside ==
    \A i \in Tasks : Gridded(i) =>
        /\ \A k \in 1..Len(img_grids[i]) :
              LET b == img_grids[i][k]
              IN  /\ b[3] - b[1] = cfg.patch_size
                  /\ b[4] - b[2] = cfg.patch_size
                  /\ b[1] % cfg.patch_size = 0
                  /\ b[2] % cfg.patch_size = 0
                  /\ 0 <= b[1] /\ b[3] <= ImageOf(i).w
                  /\ 0 <= b[2] /\ b[4] <= ImageOf(i).h
        /\ \A k, l \in 1..Len(img_grids[i]) :
              k # l => ~BoxesOverlap(img_grids[i][k], img_grids[i][l])

\* a sampled grid of a non-square image
C2_Witness ==
    \E i \in Tasks :
        /\ Gridded(i)
        /\ ImageOf(i).w # ImageOf(i).h
        /\ Len(img_grids[i]) >= 2
        /\ Len(patch_box_all(ImageOf(i), cfg.patch_size)) > cfg.max_path_per_img

RECURSIVE ConcatUpTo(_, _)
ConcatUpTo(f, n) == IF n = 0 THEN <<>> ELSE ConcatUpTo(f, n - 1) \o f[n]

RECURSIVE SumLenUpTo(_, _)
SumLenUpTo(f, n) == IF n = 0 THEN 0 ELSE SumLenUpTo(f, n - 1) + Len(f[n])

\* C3: the corpus is the concatenation, in scan order, of the lists the
\* workers returned, each in its image's grid order; its length is the sum
\* of the grid sizes, whatever order the workers finished in.
C3_CorpusOrder ==
    pc = "ready" =>
        /\ patch_grids = ConcatUpTo(lr_hr_patches, Len(file_names))
        /\ Len(patch_grids) = SumLenUpTo(img_grids, Len(file_names))
        /\ \A i \in Tasks :
              /\ Len(lr_hr_patches[i]) = Len(img_grids[i])
              /\ \A k \in 1..Len(img_grids[i]) :
                    /\ lr_hr_patches[i][k].img = i
                    /\ lr_hr_patches[i][k].box = img_grids[i][k]
        /\ \A k, l \in 1..Len(patch_grids) :
              k < l => patch_grids[k].img <= patch_grids[l].img

\* the second image's worker finished first and both images gave pairs
C3_Witness ==
    /\ pc = "ready"
    /\ Len(file_names) >= 2
    /\ set_order[1] = 2
    /\ Len(lr_hr_patches[1]) >= 1
    /\ Len(lr_hr_patches[2]) >= 2

\* C4: a fetch with an index outside [0, len) fails with IndexError.
C4_IndexError ==
    (ret.op = "getitem" /\ (ret.index < 0 \/ ret.index >= Len(patch_grids)))
        => ret.exc = "IndexError"

\* C5: once a worker raised, the build never completes: the constructor
\* does not return a corpus, and what reaches its caller is the exception.
C5_FailurePropagates ==
    /\ (\E i \in Tasks : wpc[i] = "raised") =>
          /\ pc \in {"map", "error"}
          /\ patch_grids = <<>>
          /\ map_exc \in {"IOError", "ValueError"}
    /\ pc = "error" => error \in {"KeyError", "IOError", "ValueError"}
    /\ pc = "ready" => \A i \in Tasks : wpc[i] = "done"

\* one image failed after another had already delivered its pairs
C5_Witness ==
    /\ pc = "error"
    /\ error = "IOError"
    /\ \E i, j \in Tasks :
          /\ wpc[i] = "raised"
          /\ wpc[j] = "done"
          /\ set_order[1] = j
          /\ Len(lr_hr_patches[j]) >= 1

\* C6: every pair of the corpus has a patch_size x patch_size high member
\* and a floor(patch_size / shrink_size) square low member, at every noise
\* level.
C6_PairSizes ==
    \A k \in 1..Len(patch_grids) :
        LET p == patch_grids[k]
        IN  /\ p.hr = <<cfg.patch_size, cfg.patch_size>>
            /\ p.lr[1] = p.lr[2]
            /\ p.lr[1] * cfg.shrink_size <= cfg.patch_size
            /\ cfg.patch_size < (p.lr[1] + 1) * cfg.shrink_size

\* the end-to-end scenario at a sixteenth of its scale (4x4 image, patches of
\* 2, shrink 2, no noise, cap not reached): 4 pairs of 1x1 low and 2x2 high
C6_Witness ==
    /\ pc = "ready"
    /\ ImageOf(1) = [w |-> 4, h |-> 4]
    /\ cfg.patch_size = 2 /\ cfg.shrink_size = 2 /\ cfg.noise_level = 0
    /\ cfg.max_path_per_img >= 4
    /\ Len(patch_grids) = 4
    /\ \A k \in 1..4 : patch_grids[k].lr = <<1, 1>> /\ patch_grids[k].hr = <<2, 2>>

\* C7: up_sample after shrink_img restores the original size, for every size.
C7_RoundTrip ==
    (ret.op = "shrink_up" /\ ret.exc = "none") => ret.up = ret.src

\* C7 as amended: the restored size is the largest multiple of shrink_size
\* not above the original on each axis; it is the original exactly when
\* shrink_size divides both sides.
C7_RoundTripFloor ==
    (ret.op = "shrink_up" /\ ret.exc = "none") =>
        /\ \A a \in 1..2 :
              /\ ret.up[a] % cfg.shrink_size = 0
              /\ ret.up[a] <= ret.src[a]
              /\ ret.src[a] - ret.up[a] < cfg.shrink_size
        /\ ret.up = ret.src <=>
              (ret.src[1] % cfg.shrink_size = 0 /\ ret.src[2] % cfg.shrink_size = 0)

\* a width the shrink factor does not divide, a height it does
C7_Witness ==
    /\ ret.op = "shrink_up"
    /\ ret.exc = "none"
    /\ ret.up[1] < ret.src[1]
    /\ ret.up[2] = ret.src[2]

\* the batch of ret, collated again without padding
Unpadded ==
    batch_collector([k \in 1..Len(ret.lr.items) |-> getitem(ret.lr.items[k] - 1)],
                    0, ret.up_sample)

\* C8: with pad_img = p > 0 the low batch is 2p larger on each spatial axis
\* than without padding; the high batch, the batch size, the channels and
\* the order of the patches are the same.
C8_PadOnlyLow ==
    (ret.op = "batch" /\ ret.exc = "none" /\ ret.pad > 0) =>
        /\ ret.lr.shape[3] = Unpadded.lr.shape[3] + 2 * ret.pad
        /\ ret.lr.shape[4] = Unpadded.lr.shape[4] + 2 * ret.pad
        /\ ret.lr.shape[1] = Unpadded.lr.shape[1]
        /\ ret.lr.shape[2] = Unpadded.lr.shape[2]
        /\ ret.lr.items = Unpadded.lr.items
        /\ ret.hr = Unpadded.hr
        /\ ret.hr.shape = <<Len(ret.hr.items), bands_of(cfg.color_mod),
                            cfg.patch_size, cfg.patch_size>>
        /\ \A k \in 1..Len(ret.lr.items) :
              /\ ret.lr.shape[3] = patch_grids[ret.lr.items[k]].lr[2] + 2 * ret.pad
              /\ ret.lr.shape[4] = patch_grids[ret.lr.items[k]].lr[1] + 2 * ret.pad

\* a padded batch of two different patches, with the guide
C8_Witness ==
    /\ ret.op = "batch"
    /\ ret.exc = "none"
    /\ ret.pad > 0
    /\ ret.up_sample # "None"
    /\ Len(ret.lr.items) = 2
    /\ ret.lr.items[1] > ret.lr.items[2]
    /\ ret.lr.shape[3] # ret.hr.shape[3]

\* C9: level 0 never re-encodes; level 1 draws qualities in 75..95, level 2
\* in 50..75; any other level fails the construction before a file is read.
C9_NoisePolicy ==
    /\ cfg.noise_level \notin {0, 1, 2} =>
          /\ pc \in {"init", "error"}
          /\ pc = "error" => error = "KeyError"
          /\ \A i \in Tasks : wpc[i] = "queued"
    /\ \A i \in Tasks : \A k \in 1..Len(lr_hr_patches[i]) :
          LET q == lr_hr_patches[i][k].quality
          IN  /\ cfg.noise_level = 0 => q = NoQuality
              /\ cfg.noise_level = 1 => 75 <= q /\ q <= 95
              /\ cfg.noise_level = 2 => 50 <= q /\ q <= 75

\* level 2 at the top of its range next to a lower quality
C9_Witness ==
    /\ cfg.noise_level = 2
    /\ \E i \in Tasks : \E k, l \in 1..Len(lr_hr_patches[i]) :
          /\ lr_hr_patches[i][k].quality = 75
          /\ lr_hr_patches[i][l].quality < 75

\* list(map(self.get_img_patches, file_names)): the build with one image
\* after the other, from generator state r
RECURSIVE process_from(_, _, _, _)
process_from(i, grids, k, r) ==
    IF k > Len(grids) THEN [pairs |-> <<>>, rng |-> r]
    ELSE LET p == process(i, grids[k], cfg.shrink_size, cfg.down_sample_method,
                          NoiseRange(cfg.noise_level), r)
             rest == process_from(i, grids, k + 1, p.rng)
         IN  [pairs |-> <<p.pair>> \o rest.pairs, rng |-> rest.rng]

RECURSIVE sequential_from(_, _)
sequential_from(i, r) ==
    IF i > Len(file_names) THEN <<>>
    ELSE LET g == get_img_grids(file_names[i], cfg.patch_size, cfg.max_path_per_img, r)
             ps == process_from(i, g.result, 1, g.rng)
         IN  ps.pairs \o sequential_from(i + 1, ps.rng)

\* C10: with a fixed seed the corpus (boxes, their order, filters) is the
\* same for every interleaving of the workers, hence the one of the build
\* that runs the images one after the other.
C10_SeedDeterminism ==
    pc = "ready" => patch_grids = sequential_from(1, cfg.seed)

====
